---- MODULE Spec2Model ----
(***************************************************************************)
(* Model of the Doctor orchestration engine of lib/doctor.js: register,    *)
(* diagnose, reportManualFixes, runAutoFix(es) and run.  The checks are    *)
(* external collaborators: what a check's diagnose() or fix() returns is   *)
(* chosen at the moment the Doctor awaits the call.                        *)
(***************************************************************************)
EXTENDS Integers, Sequences, FiniteSets, TLC

\* ---- bounds of the model ----
MaxChecks == 2     \* length of the master check list
MaxCalls == 7      \* calls in all: diagnose() and run() of the Doctor and
                   \* diagnose() and fix() of the checks

\* The check objects, numbered in the order they are constructed; a list of
\* MaxChecks entries holds at most MaxChecks of them.
Checks == 1..MaxChecks

\* A DiagnosticResult {ok, optional, message}; the message is a function of
\* the check and the outcome, see Message.
Results == [ok : BOOLEAN, optional : BOOLEAN]

\* Instruction strings a manual check's fix() may return.
FixStrings == {"install X", "install Y"}

\* How an automatic check's fix() may end: it completes, it throws
\* FixSkippedError, or it throws any other error.
FixOutcomes == {"done", "skipped", "error"}

VARIABLES
  registered,       \* the checks handed to register() so far, in call and argument order
  made,             \* number of check objects constructed so far
  autofix,          \* DoctorCheck.autofix of every check object
  checks,           \* this.checks
  checkOptionals,   \* this.checkOptionals
  toFix,            \* this.toFix
  toFixOptionals,   \* this.toFixOptionals
  op,               \* "run" from the return of diagnose() into run() to the end of run()
  pc,               \* position inside the operation in progress
  i,                \* index of the running for-loop
  manualFixes,      \* reportManualFixes: indices into fix with !check.autofix
  manualFixesOptional, \* same for fixOptioal
  fixMessages,      \* reportManualFixes: the strings collected so far
  autoFixes,        \* runAutoFixes: indices into toFix with check.autofix
  sink,             \* what the operation in progress has reported so far
  calls,            \* the check calls the operation in progress has awaited
  seen,             \* per check: the results its diagnose() has returned
  ncalls,           \* number of calls made so far
  hist              \* the completed public operations, with the lists they left

vars == <<registered, made, autofix, checks, checkOptionals, toFix, toFixOptionals, op, pc, i,
          manualFixes, manualFixesOptional, fixMessages, autoFixes, sink,
          calls, seen, ncalls, hist>>

\* ---- pure helpers ----

\* result.message of the result a check produced
Message(check, result) == <<"message", check, result.ok>>

\* Array.isArray(checks) ? checks : [checks]
AsArray(x) == IF x.isArray THEN x.value ELSE <<x.value>>

\* One check handed to register(): a check constructed earlier, or
\* new DoctorCheck({autofix}) constructed for this call.
RegisterItems ==
  {[fresh |-> FALSE, check |-> c, autofix |-> FALSE] : c \in Checks}
  \cup {[fresh |-> TRUE, check |-> 0, autofix |-> a] : a \in BOOLEAN}

\* what register() may be handed: one check or an array of checks
RegisterInputs ==
  {[isArray |-> FALSE, value |-> c] : c \in RegisterItems}
  \cup {[isArray |-> TRUE, value |-> a] :
          a \in {<<>>} \cup {<<c>> : c \in RegisterItems}
                      \cup {<<c, d>> : c \in RegisterItems, d \in RegisterItems}}

\* the check objects of the items, the fresh ones numbered from m + 1 on
RECURSIVE CheckObjects(_, _)
CheckObjects(items, m) ==
  IF items = <<>> THEN <<>>
  ELSE IF Head(items).fresh
       THEN <<m + 1>> \o CheckObjects(Tail(items), m + 1)
       ELSE <<Head(items).check>> \o CheckObjects(Tail(items), m)

\* number of items constructed for the call
NumFresh(items) == Cardinality({k \in DOMAIN items : items[k].fresh})

\* every item that is not fresh names a check constructed before it
Constructed(items, m) ==
  \A k \in DOMAIN items :
    ~items[k].fresh => items[k].check <= m + NumFresh(SubSeq(items, 1, k - 1))

\* this.autofix = !!opts.autofix of the fresh items, beside the flags set before
ConstructedAutofix(items, m, flags) ==
  [c \in Checks |->
     IF \E k \in DOMAIN items : items[k].fresh /\ CheckObjects(items, m)[k] = c
     THEN LET k == CHOOSE j \in DOMAIN items :
                     items[j].fresh /\ CheckObjects(items, m)[j] = c
          IN items[k].autofix
     ELSE flags[c]]

\* _.filter(list, (f) => f.check.autofix) when auto is TRUE, and
\* _.filter(list, (f) => !f.check.autofix) when it is FALSE, as the
\* increasing sequence of the positions kept, from position k on
RECURSIVE FilterIdx(_, _, _)
FilterIdx(list, auto, k) ==
  IF k > Len(list) THEN <<>>
  ELSE IF autofix[list[k].check] = auto
       THEN <<k>> \o FilterIdx(list, auto, k + 1)
       ELSE FilterIdx(list, auto, k + 1)

\* _.uniq left out
Uniq_Identity(s) == s

\* _.uniq: drop every element equal to an earlier one, keep first occurrences
RECURSIVE Uniq(_)
Uniq(s) ==
  IF s = <<>> THEN <<>>
  ELSE LET r == Uniq(SubSeq(s, 1, Len(s) - 1))
           x == s[Len(s)]
       IN IF \E k \in DOMAIN r : r[k] = x THEN r ELSE Append(r, x)

\* fixMessage(length, optional)
fixMessage(length, optional) ==
  <<(IF length = 0 THEN "no fix"
     ELSE IF length = 1 THEN "one fix" ELSE <<length, "fixes">>),
    (IF optional THEN "possible" ELSE "needed")>>

\* reportSuccess with || in place of &&
\* reportSuccess that looks at the required list only
reportSuccess_RequiredOnly(length, lengthOptional) == length = 0

reportSuccess_Either(length, lengthOptional) == length = 0 \/ lengthOptional = 0

\* reportSuccess(length, lengthOptional): the value it returns
reportSuccess(length, lengthOptional) == length = 0 /\ lengthOptional = 0

\* the line diagnosticResultMessage reports for a result
ResultLine(result) ==
  [level |-> IF result.ok THEN "succeed"
             ELSE IF result.optional THEN "warn" ELSE "fail",
   text |-> "result", section |-> "diagnose"]

\* diagnosticResultMessage with unshift in place of push
diagnosticResultMessage_Unshift(result, toFixList, check) ==
  IF result.ok THEN toFixList
  ELSE <<[error |-> Message(check, result), check |-> check,
          fixed |-> FALSE, result |-> result]>> \o toFixList

\* diagnosticResultMessage(result, toFixList, check): the list afterwards.
\* A pushed candidate has no fixed property yet, which every reader
\* (!f.fixed) takes as false.  result is kept beside the candidate to name
\* the DiagnosticResult it was classified from.
diagnosticResultMessage(result, toFixList, check) ==
  IF result.ok THEN toFixList
  ELSE Append(toFixList, [error |-> Message(check, result), check |-> check,
                          fixed |-> FALSE, result |-> result])

\* RequiredPass without its continue: optional results are classified too
RequiredPass_NoContinue(result, toFixList, check) ==
  diagnosticResultMessage(result, toFixList, check)

\* the required pass of diagnose() on one result: an optional result only
\* moves the check to checkOptionals (continue), any other is classified
RequiredPass(result, toFixList, check) ==
  IF result.optional THEN toFixList
  ELSE diagnosticResultMessage(result, toFixList, check)

Info(text) == [level |-> "info", text |-> text, section |-> "none"]

Call(kind, phase, idx, check, ret) ==
  [kind |-> kind, phase |-> phase, idx |-> idx, check |-> check, ret |-> ret]

Init ==
  /\ registered = <<>>
  /\ made = 0
  /\ autofix = [c \in Checks |-> FALSE]
  /\ checks = <<>>
  /\ checkOptionals = <<>>
  /\ toFix = <<>>
  /\ toFixOptionals = <<>>
  /\ op = "none"
  /\ pc = "idle"
  /\ i = 0
  /\ manualFixes = <<>>
  /\ manualFixesOptional = <<>>
  /\ fixMessages = <<>>
  /\ autoFixes = <<>>
  /\ sink = <<>>
  /\ calls = <<>>
  /\ seen = [c \in Checks |-> {}]
  /\ ncalls = 0
  /\ hist = <<>>

\* the record hist keeps of a completed operation: its result and the lists
\* of the Doctor when it returned
Done(o, outcome, fix, fixOpt) ==
  [op |-> o, outcome |-> outcome, checks |-> checks,
   toFix |-> fix, toFixOptionals |-> fixOpt]

\* ---- register ----

\* Concat that leaves out the checks the list already holds (_.union)
RECURSIVE Concat_Union(_, _)
Concat_Union(list, more) ==
  IF more = <<>> THEN list
  ELSE IF \E k \in DOMAIN list : list[k] = Head(more)
       THEN Concat_Union(list, Tail(more))
       ELSE Concat_Union(Append(list, Head(more)), Tail(more))

\* this.checks.concat(checks)
Concat(list, more) == list \o more

Register ==
  /\ pc = "idle"
  /\ ncalls < MaxCalls
  /\ \E x \in RegisterInputs :
       LET items == AsArray(x) IN
       /\ Len(checks) + Len(items) <= MaxChecks
       /\ Constructed(items, made)
       /\ checks' = Concat(checks, CheckObjects(items, made))
       /\ registered' = registered \o CheckObjects(items, made)
       /\ made' = made + NumFresh(items)
       /\ autofix' = ConstructedAutofix(items, made, autofix)
  /\ UNCHANGED <<checkOptionals, toFix, toFixOptionals, op, pc, i,
                 manualFixes, manualFixesOptional, fixMessages, autoFixes,
                 sink, calls, seen, hist, ncalls>>

\* ---- diagnose ----

\* public operation o returns: back to idle, remembered in hist
Return(o, outcome, fix, fixOpt) ==
  /\ pc' = "idle"
  /\ op' = "none"
  /\ hist' = Append(hist, Done(o, outcome, fix, fixOpt))

\* diagnose() is entered, by a caller of the Doctor or by run(): toFix is
\* reset and the loop over this.checks starts.  Within the bound, it is
\* entered only while MaxCalls leaves room for the calls its loops are sure
\* to make.
DiagnoseStart ==
  /\ pc = "idle"
  /\ ncalls + 1 + Len(checks) + Len(checkOptionals) <= MaxCalls
  /\ ncalls' = ncalls + 1
  /\ toFix' = <<>>
  /\ i' = 1
  /\ pc' = "required"
  /\ sink' = <<Info("necessary starting")>>
  /\ calls' = <<>>
  /\ UNCHANGED <<registered, made, autofix, checks, checkOptionals, toFixOptionals, op,
                 manualFixes, manualFixesOptional, fixMessages, autoFixes,
                 seen, hist>>

\* one iteration of the loop over this.checks
DiagnoseRequired ==
  /\ pc = "required"
  /\ i <= Len(checks)
  /\ \E res \in Results :
       LET check == checks[i] IN
       /\ calls' = Append(calls, Call("diagnose", "required", i, check, res))
       /\ seen' = [seen EXCEPT ![check] = @ \cup {res}]
       /\ checkOptionals' = IF res.optional THEN Append(checkOptionals, check)
                            ELSE checkOptionals
       /\ toFix' = RequiredPass(res, toFix, check)
       /\ sink' = IF res.optional THEN sink ELSE Append(sink, ResultLine(res))
  /\ i' = i + 1
  /\ ncalls < MaxCalls
  /\ ncalls' = ncalls + 1
  /\ UNCHANGED <<registered, made, autofix, checks, toFixOptionals, op, pc, manualFixes,
                 manualFixesOptional, fixMessages, autoFixes, hist>>

\* a loop that ends one element early
Exhausted_BeforeLast(k, list) == k >= Len(list)

\* for (const check of list): the loop ends when every element was visited
Exhausted(k, list) == k > Len(list)

\* the loop over this.checks is exhausted: toFixOptionals is reset and the
\* loop over this.checkOptionals starts
DiagnoseRequiredDone ==
  /\ pc = "required"
  /\ Exhausted(i, checks)
  /\ sink' = sink \o <<Info(<<"necessary completed", fixMessage(Len(toFix), FALSE)>>),
                       Info("optional starting")>>
  /\ toFixOptionals' = <<>>
  /\ i' = 1
  /\ pc' = "optional"
  /\ UNCHANGED <<registered, made, autofix, checks, checkOptionals, toFix, op, manualFixes,
                 manualFixesOptional, fixMessages, autoFixes, calls, seen, hist, ncalls>>

\* one iteration of the loop over this.checkOptionals
DiagnoseOptional ==
  /\ pc = "optional"
  /\ i <= Len(checkOptionals)
  /\ \E res \in Results :
       LET checkOptional == checkOptionals[i] IN
       /\ calls' = Append(calls, Call("diagnose", "optional", i, checkOptional, res))
       /\ seen' = [seen EXCEPT ![checkOptional] = @ \cup {res}]
       /\ toFixOptionals' = diagnosticResultMessage(res, toFixOptionals, checkOptional)
       /\ sink' = Append(sink, ResultLine(res))
  /\ i' = i + 1
  /\ ncalls < MaxCalls
  /\ ncalls' = ncalls + 1
  /\ UNCHANGED <<registered, made, autofix, checks, checkOptionals, toFix, op, pc, manualFixes,
                 manualFixesOptional, fixMessages, autoFixes, hist>>

\* diagnose() returns, to the caller of the Doctor or into run(); which of
\* the two called it makes no difference before this point
DiagnoseDone ==
  /\ pc = "optional"
  /\ i > Len(checkOptionals)
  /\ sink' = Append(sink, Info(<<"optional completed",
                                 fixMessage(Len(toFixOptionals), TRUE)>>))
  /\ \/ Return("diagnose", "returned", toFix, toFixOptionals)
     \/ pc' = "report" /\ op' = "run" /\ UNCHANGED hist
  /\ UNCHANGED <<registered, made, autofix, checks, checkOptionals, toFix, toFixOptionals, i,
                 manualFixes, manualFixesOptional, fixMessages, autoFixes,
                 calls, seen, ncalls>>

\* ---- reportManualFixes ----

\* (f) => !f.check.autofix
IsManual(f) == ~autofix[f.check]

\* (f) => f.check.autofix
IsAuto(f) == autofix[f.check]

\* the line printed for one collected instruction; section names the header
\* it is printed under
ManualLine(m, section) == [level |-> "warn", text |-> m, section |-> section]

RECURSIVE ManualLines(_, _)
ManualLines(ms, section) ==
  IF ms = <<>> THEN <<>>
  ELSE <<ManualLine(Head(ms), section)>> \o ManualLines(Tail(ms), section)

\* the return condition of reportManualFixes looking at manualFixes only
ManualFixesExist_RequiredOnly(manual, manualOptional) == Len(manual) > 0

\* the return condition of reportManualFixes counting every optional candidate
ManualFixesExist_AnyOptional(manual, manualOptional) ==
  Len(manual) > 0 \/ Len(toFixOptionals) > 0

\* manualFixes.length > 0 || manualFixesOptional.length > 0
ManualFixesExist(manual, manualOptional) ==
  Len(manual) > 0 \/ Len(manualOptional) > 0

\* reportManualFixes(fix, fixOptioal) is entered: both lists are filtered
\* and the loop over manualFixes starts
EnterReportManualFixes(fix, fixOptioal, out) ==
  /\ manualFixes' = FilterIdx(fix, FALSE, 1)
  /\ manualFixesOptional' = FilterIdx(fixOptioal, FALSE, 1)
  /\ fixMessages' = <<>>
  /\ i' = 1
  /\ pc' = "manual"
  /\ sink' = IF Len(FilterIdx(fix, FALSE, 1)) > 0
             THEN Append(out, Info("Manual Fixes Needed")) ELSE out

\* run(), after diagnose(): reportSuccess, and reportManualFixes if it
\* returned false
RunReportSuccess ==
  /\ pc = "report"
  /\ IF reportSuccess(Len(toFix), Len(toFixOptionals))
     THEN /\ sink' = Append(sink, Info("Everything looks good, bye!"))
          /\ Return("run", "all-clean", toFix, toFixOptionals)
          /\ UNCHANGED <<manualFixes, manualFixesOptional, fixMessages, i>>
     ELSE /\ EnterReportManualFixes(toFix, toFixOptionals, sink)
          /\ UNCHANGED <<op, hist>>
  /\ UNCHANGED <<registered, made, autofix, checks, checkOptionals, toFix, toFixOptionals,
                 autoFixes, calls, seen, ncalls>>

\* one iteration of the loop over manualFixes
ManualFix ==
  /\ pc = "manual"
  /\ i <= Len(manualFixes)
  /\ \E m \in FixStrings :
       /\ fixMessages' = Append(fixMessages, m)
       /\ calls' = Append(calls, Call("fix", "manual", manualFixes[i],
                                      toFix[manualFixes[i]].check, m))
  /\ i' = i + 1
  /\ ncalls < MaxCalls
  /\ ncalls' = ncalls + 1
  /\ UNCHANGED <<registered, made, autofix, checks, checkOptionals, toFix, toFixOptionals, op,
                 pc, manualFixes, manualFixesOptional, autoFixes, sink, seen,
                 hist>>

\* the required instructions are printed; the loop over manualFixesOptional
\* starts
ManualFixDone ==
  /\ pc = "manual"
  /\ i > Len(manualFixes)
  /\ sink' = sink \o ManualLines(Uniq(fixMessages), "required")
                  \o (IF Len(manualFixesOptional) > 0
                      THEN <<Info("Optional Manual Fixes")>> ELSE <<>>)
  /\ fixMessages' = <<>>
  /\ i' = 1
  /\ pc' = "manual_optional"
  /\ UNCHANGED <<registered, made, autofix, checks, checkOptionals, toFix, toFixOptionals, op,
                 manualFixes, manualFixesOptional, autoFixes, calls, seen,
                 hist, ncalls>>

\* one iteration of the loop over manualFixesOptional
ManualFixOptional ==
  /\ pc = "manual_optional"
  /\ i <= Len(manualFixesOptional)
  /\ \E m \in FixStrings :
       /\ fixMessages' = Append(fixMessages, m)
       /\ calls' = Append(calls, Call("fix", "manual_optional",
                                      manualFixesOptional[i],
                                      toFixOptionals[manualFixesOptional[i]].check, m))
  /\ i' = i + 1
  /\ ncalls < MaxCalls
  /\ ncalls' = ncalls + 1
  /\ UNCHANGED <<registered, made, autofix, checks, checkOptionals, toFix, toFixOptionals, op,
                 pc, manualFixes, manualFixesOptional, autoFixes, sink, seen,
                 hist>>

\* this.toFix filtered to the automatic candidates
AutoFixCandidates == FilterIdx(toFix, TRUE, 1)

\* runAutoFixes() is entered
EnterRunAutoFixes ==
  /\ autoFixes' = AutoFixCandidates
  /\ i' = 1
  /\ pc' = "auto"

\* the optional instructions are printed and reportManualFixes returns to
\* run(): true ends the run, false enters runAutoFixes
ManualFixOptionalDone ==
  /\ pc = "manual_optional"
  /\ i > Len(manualFixesOptional)
  /\ fixMessages' = <<>>
  /\ IF ManualFixesExist(manualFixes, manualFixesOptional)
     THEN /\ sink' = sink \o ManualLines(Uniq(fixMessages), "optional")
                          \o <<Info("Bye! Run appium-doctor again")>>
          /\ Return("run", "manual-fixes-pending", toFix, toFixOptionals)
          /\ UNCHANGED <<autoFixes, i>>
     ELSE /\ sink' = sink \o ManualLines(Uniq(fixMessages), "optional")
          /\ EnterRunAutoFixes
          /\ UNCHANGED <<op, hist>>
  /\ UNCHANGED <<registered, made, autofix, checks, checkOptionals, toFix, toFixOptionals,
                 manualFixes, manualFixesOptional, calls, seen, ncalls>>

\* ---- runAutoFix, runAutoFixes ----

\* FixPath without the instanceof FixSkippedError branch
FixPath_NoSkip(outcome) == IF outcome = "done" THEN "verify" ELSE "failed"

\* the way runAutoFix goes on after f.check.fix(): the catch branch of a
\* FixSkippedError, the catch branch of any other error, or the re-diagnosis
FixPath(outcome) ==
  IF outcome = "skipped" THEN "skipped"
  ELSE IF outcome = "error" THEN "failed" ELSE "verify"

\* FixedAfter without the test of res.ok
FixedAfter_Always(f, res) == TRUE

\* the value f.fixed has after the re-diagnosis returned res
FixedAfter(f, res) == IF res.ok THEN TRUE ELSE f.fixed

\* AfterReturn with the error of fix() left uncaught by the loop
AfterReturn_AbortOnError(path, k, n) == IF path = "failed" THEN n + 1 ELSE k + 1

\* the position of the loop over autoFixes (of length n) after runAutoFix
\* returned from a catch branch for the candidate at position k: the for-of
\* goes on with the next candidate whichever branch it was
AfterReturn(path, k, n) == k + 1

\* runAutoFix(f) up to the end of f.check.fix(), for the next candidate of
\* autoFixes
AutoFix ==
  /\ pc = "auto"
  /\ i <= Len(autoFixes)
  /\ \E outcome \in FixOutcomes :
       LET k == autoFixes[i]
           f == toFix[k]
           path == FixPath(outcome)
       IN
       /\ calls' = Append(calls, Call("fix", "auto", k, f.check, outcome))
       /\ CASE path = "skipped" ->
                 /\ sink' = sink \o <<Info(<<"Fixing", f.error>>),
                                      Info("Skipped fix")>>
                 /\ i' = AfterReturn(path, i, Len(autoFixes))
                 /\ pc' = "auto"
            [] path = "failed" ->
                 /\ sink' = sink \o <<Info(<<"Fixing", f.error>>),
                                      [level |-> "warn", text |-> "err",
                                       section |-> "fix"],
                                      Info("Fix did not succeed")>>
                 /\ i' = AfterReturn(path, i, Len(autoFixes))
                 /\ pc' = "auto"
            [] path = "verify" ->
                 /\ sink' = sink \o <<Info(<<"Fixing", f.error>>),
                                      Info("Checking if this was fixed:")>>
                 /\ i' = i
                 /\ pc' = "rediagnose"
  /\ ncalls < MaxCalls
  /\ ncalls' = ncalls + 1
  /\ UNCHANGED <<registered, made, autofix, checks, checkOptionals, toFix, toFixOptionals, op,
                 manualFixes, manualFixesOptional, fixMessages, autoFixes,
                 seen, hist>>

\* SetFixed that takes a fixed candidate out of the list
SetFixed_Remove(list, k, v) ==
  IF v THEN SubSeq(list, 1, k - 1) \o SubSeq(list, k + 1, Len(list))
  ELSE list

\* f.fixed = v on candidate k of the list: the candidate is changed in place
SetFixed(list, k, v) == [list EXCEPT ![k].fixed = v]

\* runAutoFix(f) after fix() completed: the check is diagnosed again
ReDiagnose ==
  /\ pc = "rediagnose"
  /\ \E res \in Results :
       LET k == autoFixes[i]
           f == toFix[k]
       IN
       /\ calls' = Append(calls, Call("diagnose", "rediagnose", k, f.check, res))
       /\ seen' = [seen EXCEPT ![f.check] = @ \cup {res}]
       /\ toFix' = SetFixed(toFix, k, FixedAfter(f, res))
       /\ sink' = sink \o <<Info(<<IF res.ok THEN "check mark" ELSE "cross",
                                   Message(f.check, res)>>),
                            Info(IF res.ok THEN "Fix was successfully applied"
                                 ELSE "Fix was applied but issue remains")>>
  /\ i' = i + 1
  /\ pc' = "auto"
  /\ ncalls < MaxCalls
  /\ ncalls' = ncalls + 1
  /\ UNCHANGED <<registered, made, autofix, checks, checkOptionals, toFixOptionals, op,
                 manualFixes, manualFixesOptional, fixMessages, autoFixes,
                 hist>>

\* the test that asks every candidate to be unfixed (_.every)
IssuesRemain_Every(fix, auto) == \A j \in DOMAIN auto : ~fix[auto[j]].fixed

\* _.find(autoFixes, (f) => !f.fixed) finds a candidate
IssuesRemain(fix, auto) == \E j \in DOMAIN auto : ~fix[auto[j]].fixed

\* the loop over autoFixes is exhausted: the final report, and runAutoFixes
\* and then run() return
RunAutoFixesDone ==
  /\ pc = "auto"
  /\ i > Len(autoFixes)
  /\ sink' = Append(sink, Info(IF IssuesRemain(toFix, autoFixes)
                               THEN "Bye! A few issues remain"
                               ELSE "Bye! All issues have been fixed!"))
  /\ Return("run", "auto-fixes-attempted", toFix, toFixOptionals)
  /\ UNCHANGED <<registered, made, autofix, checks, checkOptionals, toFix, toFixOptionals, i,
                 manualFixes, manualFixesOptional, fixMessages, autoFixes,
                 calls, seen, ncalls>>

Next ==
  \/ Register
  \/ DiagnoseStart
  \/ DiagnoseRequired
  \/ DiagnoseRequiredDone
  \/ DiagnoseOptional
  \/ DiagnoseDone
  \/ RunReportSuccess
  \/ ManualFix
  \/ ManualFixDone
  \/ ManualFixOptional
  \/ ManualFixOptionalDone
  \/ AutoFix
  \/ ReDiagnose
  \/ RunAutoFixesDone

Spec == Init /\ [][Next]_vars

\* the steps run() takes after diagnose() has returned to it
RunStep ==
  \/ RunReportSuccess
  \/ ManualFix
  \/ ManualFixDone
  \/ ManualFixOptional
  \/ ManualFixOptionalDone
  \/ AutoFix
  \/ ReDiagnose
  \/ RunAutoFixesDone

\* every call run() awaits completes, so run() goes on while it has a step
\* to take
SpecFair == Spec /\ WF_vars(RunStep)

\* ---- checks that throw ----

\* The operation in progress is rejected with the error of a check: nothing
\* of it runs any more.  Inside diagnose() the caller is the Doctor's caller
\* or run(), which awaits diagnose() without a try and is rejected with it.
Reject(o) == Return(o, "rejected", toFix, toFixOptionals)

\* check.diagnose() throws in the loop over this.checks
DiagnoseRequiredThrows ==
  /\ pc = "required"
  /\ i <= Len(checks)
  /\ ncalls < MaxCalls
  /\ ncalls' = ncalls + 1
  /\ calls' = Append(calls, Call("diagnose", "required", i, checks[i], "throws"))
  /\ \E o \in {"diagnose", "run"} : Reject(o)
  /\ UNCHANGED <<registered, made, autofix, checks, checkOptionals, toFix, toFixOptionals,
                 i, manualFixes, manualFixesOptional, fixMessages, autoFixes,
                 sink, seen>>

\* checkOptional.diagnose() throws in the loop over this.checkOptionals
DiagnoseOptionalThrows ==
  /\ pc = "optional"
  /\ i <= Len(checkOptionals)
  /\ ncalls < MaxCalls
  /\ ncalls' = ncalls + 1
  /\ calls' = Append(calls, Call("diagnose", "optional", i, checkOptionals[i],
                                 "throws"))
  /\ \E o \in {"diagnose", "run"} : Reject(o)
  /\ UNCHANGED <<registered, made, autofix, checks, checkOptionals, toFix, toFixOptionals,
                 i, manualFixes, manualFixesOptional, fixMessages, autoFixes,
                 sink, seen>>

\* f.check.fix() of a manual candidate throws in the loop over manualFixes
ManualFixThrows ==
  /\ pc = "manual"
  /\ i <= Len(manualFixes)
  /\ ncalls < MaxCalls
  /\ ncalls' = ncalls + 1
  /\ calls' = Append(calls, Call("fix", "manual", manualFixes[i],
                                 toFix[manualFixes[i]].check, "throws"))
  /\ Reject("run")
  /\ UNCHANGED <<registered, made, autofix, checks, checkOptionals, toFix, toFixOptionals,
                 i, manualFixes, manualFixesOptional, fixMessages, autoFixes,
                 sink, seen>>

\* f.check.fix() throws in the loop over manualFixesOptional
ManualFixOptionalThrows ==
  /\ pc = "manual_optional"
  /\ i <= Len(manualFixesOptional)
  /\ ncalls < MaxCalls
  /\ ncalls' = ncalls + 1
  /\ calls' = Append(calls, Call("fix", "manual_optional", manualFixesOptional[i],
                                 toFixOptionals[manualFixesOptional[i]].check,
                                 "throws"))
  /\ Reject("run")
  /\ UNCHANGED <<registered, made, autofix, checks, checkOptionals, toFix, toFixOptionals,
                 i, manualFixes, manualFixesOptional, fixMessages, autoFixes,
                 sink, seen>>

\* f.check.diagnose() throws in runAutoFix, after the try block
ReDiagnoseThrows ==
  /\ pc = "rediagnose"
  /\ ncalls < MaxCalls
  /\ ncalls' = ncalls + 1
  /\ calls' = Append(calls, Call("diagnose", "rediagnose", autoFixes[i],
                                 toFix[autoFixes[i]].check, "throws"))
  /\ Reject("run")
  /\ UNCHANGED <<registered, made, autofix, checks, checkOptionals, toFix, toFixOptionals,
                 i, manualFixes, manualFixesOptional, fixMessages, autoFixes,
                 sink, seen>>

NextThrow ==
  \/ Next
  \/ DiagnoseRequiredThrows
  \/ DiagnoseOptionalThrows
  \/ ManualFixThrows
  \/ ManualFixOptionalThrows
  \/ ReDiagnoseThrows

\* the Doctor with checks whose diagnose() and fix() may throw anywhere
SpecThrow == Init /\ [][NextThrow]_vars

\* ---- vocabulary of the properties ----

Last == hist[Len(hist)]

\* run() has returned and nothing was called since
RunReturned == pc = "idle" /\ Len(hist) > 0 /\ Last.op = "run"

\* diagnose() has returned, to its caller or into run()
DiagnoseReturned ==
  \/ pc = "idle" /\ Len(hist) > 0 /\ Last.op = "diagnose"
  \/ pc = "report"

\* every check has returned one and the same result from all its diagnose() calls
AllDeterministic == \A c \in Checks : Cardinality(seen[c]) <= 1

\* the checks of a candidate list, in list order
CheckSeq(list) == [k \in DOMAIN list |-> list[k].check]

\* some candidate of either list is manual
HasManual ==
  \/ \E k \in DOMAIN toFix : IsManual(toFix[k])
  \/ \E k \in DOMAIN toFixOptionals : IsManual(toFixOptionals[k])

\* number of lines of the sink that satisfy a test
Count(seq, test(_)) == Cardinality({k \in DOMAIN seq : test(seq[k])})

\* C1: two diagnose() calls in succession, on the same master list and with
\* deterministic checks, leave the same toFix and toFixOptionals.
DiagnoseIdempotent ==
  \A k \in 1..(Len(hist) - 1) :
    (/\ hist[k].op = "diagnose"
     /\ hist[k + 1].op = "diagnose"
     /\ hist[k].checks = hist[k + 1].checks
     /\ AllDeterministic)
    => /\ hist[k + 1].toFix = hist[k].toFix
       /\ hist[k + 1].toFixOptionals = hist[k].toFixOptionals

\* C2: no candidate of toFix was classified from a result with optional = true.
RequiredListHasNoOptionalResult ==
  \A k \in DOMAIN toFix : ~toFix[k].result.optional

\* C2 witness: toFix holds a candidate of a check that has also returned an
\* optional result.
RequiredCandidateOfOnceOptionalCheck ==
  \E k \in DOMAIN toFix : \E r \in seen[toFix[k].check] : r.optional

\* C3: no candidate of toFixOptionals was classified from a result with
\* optional = false.
OptionalListHasOnlyOptionalResults ==
  \A k \in DOMAIN toFixOptionals : toFixOptionals[k].result.optional

\* the fix() calls reportManualFixes made for one of its two lists
IsManualCall(e, phase) == e.kind = "fix" /\ e.phase = phase

\* how often instruction m was printed under a section
Printed(m, section) ==
  Count(sink, LAMBDA l : l.level = "warn" /\ l.section = section /\ l.text = m)

\* every manual candidate of both lists had its fix() invoked
ManualFixesAllInvoked ==
  /\ \A k \in DOMAIN toFix :
       IsManual(toFix[k]) =>
         Count(calls, LAMBDA e : IsManualCall(e, "manual") /\ e.idx = k
                                 /\ e.check = toFix[k].check) = 1
  /\ \A k \in DOMAIN toFixOptionals :
       IsManual(toFixOptionals[k]) =>
         Count(calls, LAMBDA e : IsManualCall(e, "manual_optional") /\ e.idx = k
                                 /\ e.check = toFixOptionals[k].check) = 1

\* C4 as claimed: when reportManualFixes has returned, every manual candidate
\* had fix() invoked and every returned string was printed exactly once in
\* the whole call.
ManualFixPrintedOncePerCall ==
  RunReturned =>
    /\ ManualFixesAllInvoked
    /\ \A j \in DOMAIN calls :
         (IsManualCall(calls[j], "manual") \/ IsManualCall(calls[j], "manual_optional"))
         => Printed(calls[j].ret, "required") + Printed(calls[j].ret, "optional") = 1

\* C4 amended: every manual candidate had fix() invoked, and every returned
\* string was printed exactly once under the header of each list it was
\* returned for (and not under the other header unless returned there too).
ManualFixPrintedOncePerList ==
  RunReturned =>
    /\ ManualFixesAllInvoked
    /\ \A m \in FixStrings :
         /\ Printed(m, "required") =
              IF \E j \in DOMAIN calls : IsManualCall(calls[j], "manual") /\ calls[j].ret = m
              THEN 1 ELSE 0
         /\ Printed(m, "optional") =
              IF \E j \in DOMAIN calls : IsManualCall(calls[j], "manual_optional")
                                         /\ calls[j].ret = m
              THEN 1 ELSE 0

\* C4 witness: the run ended after two manual candidates of one list
\* returned the same string.
TwoManualFixesSameString ==
  /\ RunReturned
  /\ \E j1, j2 \in DOMAIN calls :
       /\ j1 < j2
       /\ calls[j1].kind = "fix" /\ calls[j2].kind = "fix"
       /\ calls[j1].phase = calls[j2].phase
       /\ calls[j1].phase \in {"manual", "manual_optional"}
       /\ calls[j1].ret = calls[j2].ret

\* candidate k of toFix had a fix() that completed, followed at once by a
\* re-diagnosis of the same check that returned ok
FixVerified(k) ==
  \E j \in 1..(Len(calls) - 1) :
    /\ calls[j].kind = "fix" /\ calls[j].phase = "auto" /\ calls[j].idx = k
    /\ calls[j].check = toFix[k].check /\ calls[j].ret = "done"
    /\ calls[j + 1].kind = "diagnose" /\ calls[j + 1].phase = "rediagnose"
    /\ calls[j + 1].check = toFix[k].check /\ calls[j + 1].ret.ok

\* C5: fixed is true only for a candidate whose fix() completed and whose
\* re-diagnosis returned ok; once runAutoFixes has completed, every automatic
\* candidate of toFix with such a fix is fixed, and no candidate of
\* toFixOptionals is.
FixedIffVerified ==
  /\ \A k \in DOMAIN toFix : toFix[k].fixed => IsAuto(toFix[k]) /\ FixVerified(k)
  /\ \A k \in DOMAIN toFixOptionals : ~toFixOptionals[k].fixed
  /\ (RunReturned /\ Last.outcome = "auto-fixes-attempted") =>
       \A k \in DOMAIN toFix : IsAuto(toFix[k]) => (toFix[k].fixed <=> FixVerified(k))

\* C5 witness: runAutoFixes completed with one candidate fixed and another
\* whose fix was applied but left the issue.
FixedAndUnfixedAfterAutoFixes ==
  /\ RunReturned /\ Last.outcome = "auto-fixes-attempted"
  /\ \E k \in DOMAIN toFix : toFix[k].fixed
  /\ \E k \in DOMAIN toFix :
       /\ ~toFix[k].fixed
       /\ \E j \in DOMAIN calls : calls[j].phase = "rediagnose" /\ calls[j].idx = k

IsAutoFixCall(e, outcome) == e.kind = "fix" /\ e.phase = "auto" /\ e.ret = outcome

\* C6: a fix() that ended with FixSkippedError or with another error leaves
\* fixed false and is not followed by a re-diagnosis; "Skipped fix" is
\* reported once per skipped fix, the error warning and "Fix did not
\* succeed" once per fix that failed otherwise.
SkippedFixIsNotAFailure ==
  pc \in {"auto", "rediagnose", "idle"} =>
  /\ \A j \in DOMAIN calls :
       (IsAutoFixCall(calls[j], "skipped") \/ IsAutoFixCall(calls[j], "error")) =>
         /\ ~toFix[calls[j].idx].fixed
         /\ pc # "rediagnose" \/ j < Len(calls)
         /\ j < Len(calls) => calls[j + 1].phase # "rediagnose"
  /\ Count(sink, LAMBDA l : l.text = "Skipped fix")
       = Count(calls, LAMBDA e : IsAutoFixCall(e, "skipped"))
  /\ Count(sink, LAMBDA l : l.text = "Fix did not succeed")
       = Count(calls, LAMBDA e : IsAutoFixCall(e, "error"))
  /\ Count(sink, LAMBDA l : l.level = "warn" /\ l.section = "fix")
       = Count(calls, LAMBDA e : IsAutoFixCall(e, "error"))

\* C6 witness: a run ended in which one fix was skipped and another failed.
SkippedAndFailedFix ==
  /\ RunReturned
  /\ \E j \in DOMAIN calls : IsAutoFixCall(calls[j], "skipped")
  /\ \E j \in DOMAIN calls : IsAutoFixCall(calls[j], "error")

SuccessReported == \E k \in DOMAIN sink : sink[k].text = "Everything looks good, bye!"

\* every diagnose() call of the operation returned ok
AllDiagnosedOk ==
  \A j \in DOMAIN calls : calls[j].kind = "diagnose" => calls[j].ret.ok

\* C7: a run in which every diagnose() returned ok leaves both lists empty,
\* reports success and invokes no fix(); success is reported only with both
\* lists empty.
AllOkRunReportsSuccess ==
  /\ (RunReturned /\ AllDiagnosedOk) =>
       /\ toFix = <<>> /\ toFixOptionals = <<>>
       /\ Last.outcome = "all-clean" /\ SuccessReported
       /\ \A j \in DOMAIN calls : calls[j].kind # "fix"
  /\ SuccessReported => toFix = <<>> /\ toFixOptionals = <<>>
  /\ (RunReturned /\ Last.outcome = "all-clean") =>
       SuccessReported /\ toFix = <<>> /\ toFixOptionals = <<>>

\* C7 witness: a run over a required and an optional check, both ok, ended
\* all-clean.
AllCleanRun ==
  /\ RunReturned /\ Last.outcome = "all-clean"
  /\ \E j \in DOMAIN calls : calls[j].phase = "required" /\ ~calls[j].ret.optional
  /\ \E j \in DOMAIN calls : calls[j].phase = "optional"

\* the one result a deterministic check has returned
ResultOf(c) == CHOOSE r \in seen[c] : TRUE

FailsRequired(c) == ~ResultOf(c).ok /\ ~ResultOf(c).optional

FailsOptional(c) == ~ResultOf(c).ok /\ ResultOf(c).optional

\* the candidates diagnosticResultMessage records for a list of failing checks
RECURSIVE CandidatesOf(_)
CandidatesOf(cs) ==
  IF cs = <<>> THEN <<>>
  ELSE <<[error |-> Message(Head(cs), ResultOf(Head(cs))), check |-> Head(cs),
          fixed |-> FALSE, result |-> ResultOf(Head(cs))]>>
       \o CandidatesOf(Tail(cs))

\* the first diagnose() of the Doctor has just returned
FirstDiagnoseReturned ==
  \/ pc = "idle" /\ Len(hist) = 1 /\ Last.op = "diagnose" /\ checks = Last.checks
  \/ pc = "report" /\ Len(hist) = 0

\* C8: after the first diagnose() with deterministic checks, toFix is the
\* registered checks that fail and are not optional, toFixOptionals those
\* that fail and are optional, both in registration order.
FirstDiagnoseClassifies ==
  (FirstDiagnoseReturned /\ AllDeterministic) =>
    /\ toFix = CandidatesOf(SelectSeq(checks, FailsRequired))
    /\ toFixOptionals = CandidatesOf(SelectSeq(checks, FailsOptional))

\* C8 witness: the first diagnose() returned for a master list that holds a
\* failing required check and, behind it, a failing optional one.
FirstDiagnoseMixed ==
  /\ FirstDiagnoseReturned /\ AllDeterministic
  /\ \E a, b \in DOMAIN checks :
       /\ a < b
       /\ FailsRequired(checks[a]) /\ FailsOptional(checks[b])
  /\ Len(toFix) = 1 /\ Len(toFixOptionals) = 1

\* C9: a run that diagnosed a manual candidate into either list ends
\* manual-fixes-pending without entering runAutoFixes or invoking fix() on an
\* automatic check; reportManualFixes returns true exactly when a manual
\* candidate exists.
ManualFixesShortCircuit ==
  /\ pc \in {"auto", "rediagnose"} => ~HasManual
  /\ RunReturned =>
       /\ HasManual =>
            /\ Last.outcome = "manual-fixes-pending"
            /\ \A j \in DOMAIN calls :
                 /\ calls[j].phase \notin {"auto", "rediagnose"}
                 /\ calls[j].kind = "fix" => ~autofix[calls[j].check]
       /\ Last.outcome = "manual-fixes-pending" => HasManual
       /\ Last.outcome = "auto-fixes-attempted" => ~HasManual

\* C9 witness: a run ended manual-fixes-pending although toFix held an
\* automatic candidate, the manual one being optional.
ManualOptionalStopsRun ==
  /\ RunReturned /\ Last.outcome = "manual-fixes-pending"
  /\ \E k \in DOMAIN toFix : IsAuto(toFix[k])
  /\ \A k \in DOMAIN toFix : IsAuto(toFix[k])

\* every automatic candidate of toFix had its fix() invoked by runAutoFixes
AutoFixesAllInvoked ==
  /\ Last.outcome = "auto-fixes-attempted"
  /\ \A k \in DOMAIN toFix :
       IsAuto(toFix[k]) =>
         \E j \in DOMAIN calls : /\ calls[j].kind = "fix" /\ calls[j].phase = "auto"
                                 /\ calls[j].idx = k /\ calls[j].check = toFix[k].check

RequiredAutoOnly ==
  /\ \E k \in DOMAIN toFix : IsAuto(toFix[k])
  /\ \A k \in DOMAIN toFix : ~IsManual(toFix[k])

\* C10 as claimed: a run whose toFix holds an automatic candidate and no
\* manual one invokes fix() on it, whatever toFixOptionals holds.
OptionalNeverBlocksAutoFix ==
  (RunReturned /\ RequiredAutoOnly) => AutoFixesAllInvoked

\* C10 amended: ... provided toFixOptionals holds no manual candidate.
OptionalAutoNeverBlocksAutoFix ==
  (RunReturned /\ RequiredAutoOnly /\ ~HasManual) => AutoFixesAllInvoked

\* C10 witness: the automatic fixes ran while toFixOptionals held a failing
\* automatic candidate.
AutoFixedBesideOptionalFailure ==
  /\ RunReturned /\ RequiredAutoOnly /\ Last.outcome = "auto-fixes-attempted"
  /\ toFixOptionals # <<>>

\* the three ways run() ends
TerminalStates == {"all-clean", "manual-fixes-pending", "auto-fixes-attempted"}

\* C11: whatever a check throws, every run() ends in one of its terminal
\* states; none is ended by the error of a check.
CheckErrorNeverEndsRun ==
  \A k \in DOMAIN hist : hist[k].op = "run" => hist[k].outcome \in TerminalStates

\* the fix() calls runAutoFixes has made so far, in the order made
AutoFixCalls == SelectSeq(calls, LAMBDA e : e.kind = "fix" /\ e.phase = "auto")

\* C12: runAutoFixes invokes fix() on the automatic candidates of toFix in
\* list order, each at most once, and on every one of them by the time it
\* returns, however the fix() of an earlier candidate ended.
EveryAutoFixInvokedInOrder ==
  pc \in {"auto", "rediagnose", "idle"} =>
    /\ \A j \in DOMAIN AutoFixCalls :
         /\ AutoFixCalls[j].idx \in DOMAIN toFix
         /\ IsAuto(toFix[AutoFixCalls[j].idx])
         /\ AutoFixCalls[j].check = toFix[AutoFixCalls[j].idx].check
         /\ j > 1 => AutoFixCalls[j - 1].idx < AutoFixCalls[j].idx
         /\ \A k \in 1..(AutoFixCalls[j].idx - 1) :
              IsAuto(toFix[k]) => \E h \in 1..(j - 1) : AutoFixCalls[h].idx = k
    /\ (RunReturned /\ Last.outcome = "auto-fixes-attempted") =>
         Len(AutoFixCalls) = Cardinality({k \in DOMAIN toFix : IsAuto(toFix[k])})

\* C12 witness: runAutoFixes returned after a fix() that threw an error and
\* a later candidate's fix().
FixInvokedAfterFailedFix ==
  /\ RunReturned /\ Last.outcome = "auto-fixes-attempted"
  /\ Len(AutoFixCalls) >= 2
  /\ AutoFixCalls[1].ret = "error"

\* the diagnose() calls of the loop over this.checks, in the order made
RequiredCalls == SelectSeq(calls, LAMBDA e : e.phase = "required")

\* C13: the master list is the concatenation of everything handed to
\* register(), in call and argument order and with repetitions, and the
\* required pass of diagnose() calls the entries in that order.
RegisterAppendsInOrder ==
  /\ checks = registered
  /\ \A j \in DOMAIN RequiredCalls :
       /\ j <= Len(registered)
       /\ RequiredCalls[j].idx = j
       /\ RequiredCalls[j].check = registered[j]
  /\ pc \notin {"idle", "required"} => Len(RequiredCalls) = Len(registered)

\* C13 witness: the required pass has gone through a master list that holds
\* one check twice.
SameCheckDiagnosedTwice ==
  /\ pc = "optional"
  /\ Len(RequiredCalls) = 2
  /\ RequiredCalls[1].check = RequiredCalls[2].check

\* MaxCalls leaves room for every call run() can still make on the two lists
RoomToFinish == ncalls + 2 * Len(toFix) + Len(toFixOptionals) <= MaxCalls

\* C14: run() goes through diagnose() once, does not go back into it, and
\* ends in one of three states: all-clean when both lists are empty,
\* manual-fixes-pending when a candidate is manual, auto-fixes-attempted
\* otherwise.
RunIsLinear ==
  /\ [](RunReturned =>
          /\ Last.outcome \in TerminalStates
          /\ Len(RequiredCalls) = Len(Last.checks)
          /\ Last.outcome = "all-clean" <=> (toFix = <<>> /\ toFixOptionals = <<>>)
          /\ Last.outcome = "manual-fixes-pending" <=> HasManual)
  /\ [][op = "run" => pc' \notin {"required", "optional"}]_vars
  /\ (pc = "report" /\ RoomToFinish) ~> RunReturned

\* C14 witness: a run() over two checks has ended after its automatic fixes.
RunEndedAfterAutoFixes ==
  /\ RunReturned
  /\ Last.outcome = "auto-fixes-attempted"
  /\ Len(RequiredCalls) = 2
  /\ Len(toFix) = 2

\* number of entries of a list of checks that are the check c
Entries(list, c) == Cardinality({k \in DOMAIN list : list[k] = c})

\* number of diagnose() calls the two loops of diagnose() have made on check c
DiagnoseCalls(c) ==
  Cardinality({k \in DOMAIN calls :
                 /\ calls[k].phase \in {"required", "optional"}
                 /\ calls[k].check = c})

\* C15: in one diagnose(), first or later, a check is diagnosed at most
\* twice for each of its entries in the master list, and at the end of the
\* optional loop at least once for each.
DiagnoseCallsBounded ==
  pc \in {"required", "optional"} =>
    \A c \in Checks :
      /\ DiagnoseCalls(c) <= 2 * Entries(checks, c)
      /\ (pc = "optional" /\ i > Len(checkOptionals)) =>
           DiagnoseCalls(c) >= Entries(checks, c)

\* the checks that have a candidate in a list of candidates
Held(list) == {list[k].check : k \in DOMAIN list}

\* C16: when diagnose() has returned, no check with a single entry in the
\* master list has a candidate in toFix and a candidate in toFixOptionals.
CandidateInOneListOnly ==
  DiagnoseReturned =>
    \A c \in Checks :
      Entries(checks, c) = 1 => ~(c \in Held(toFix) /\ c \in Held(toFixOptionals))

\* the diagnose() calls of the two loops of diagnose(), in the order made
LoopCalls == SelectSeq(calls, LAMBDA e : e.phase \in {"required", "optional"})

\* C17: the calls of diagnose() are made one after the other: first the
\* master list in registration order, then, when its last check has
\* returned, the optional group in its order.
DiagnosisIsSequential ==
  /\ \A j \in DOMAIN LoopCalls :
       IF j <= Len(RequiredCalls)
       THEN /\ LoopCalls[j].phase = "required"
            /\ LoopCalls[j].idx = j
            /\ LoopCalls[j].check = checks[j]
       ELSE /\ LoopCalls[j].phase = "optional"
            /\ LoopCalls[j].idx = j - Len(RequiredCalls)
            /\ LoopCalls[j].check = checkOptionals[j - Len(RequiredCalls)]
  /\ pc = "required" => Len(LoopCalls) = i - 1
  /\ pc = "optional" =>
       /\ Len(RequiredCalls) = Len(checks)
       /\ Len(LoopCalls) = Len(checks) + i - 1

\* C17 witness: two checks were moved to the optional group by the required
\* pass and the optional pass has diagnosed the first of them again.
OptionalPassAfterTwoRequired ==
  /\ pc = "optional"
  /\ Len(RequiredCalls) = 2
  /\ RequiredCalls[1].check # RequiredCalls[2].check
  /\ Len(LoopCalls) = 3
  /\ LoopCalls[3].check = RequiredCalls[1].check

\* number of lines of the sink with a given text
Lines(text) == Cardinality({k \in DOMAIN sink : sink[k].text = text})

\* C18: a run() that went through runAutoFixes has reported exactly one of
\* 'issues remain' and 'all fixed', and 'issues remain' if and only if an
\* automatic candidate of toFix is left with fixed = false.
FinalReportTellsUnfixed ==
  (RunReturned /\ Last.outcome = "auto-fixes-attempted") =>
    /\ Lines("Bye! A few issues remain") + Lines("Bye! All issues have been fixed!") = 1
    /\ Lines("Bye! A few issues remain") = 1 <=>
         \E k \in DOMAIN toFix : IsAuto(toFix[k]) /\ ~toFix[k].fixed

\* C18 witness: the one automatic fix was applied, the check still failed
\* when diagnosed again, and 'issues remain' was reported.
IssuesRemainAfterAppliedFix ==
  /\ RunReturned /\ Last.outcome = "auto-fixes-attempted"
  /\ Len(toFix) = 1
  /\ Len(AutoFixCalls) = 1 /\ AutoFixCalls[1].ret = "done"
  /\ ~toFix[1].fixed
  /\ Lines("Bye! A few issues remain") = 1

\* C19: when run() has reported that all issues have been fixed, every
\* candidate of toFix and of toFixOptionals has fixed = true.
AllFixedReportIsSound ==
  (RunReturned /\ Lines("Bye! All issues have been fixed!") = 1) =>
    /\ \A k \in DOMAIN toFix : toFix[k].fixed
    /\ \A k \in DOMAIN toFixOptionals : toFixOptionals[k].fixed

\* the checks of the failing results one loop of diagnose() has classified
Classified(phase) ==
  LET failed == SelectSeq(calls, LAMBDA e : /\ e.phase = phase
                                            /\ ~e.ret.ok
                                            /\ (phase = "required" => ~e.ret.optional))
  IN [k \in DOMAIN failed |-> failed[k].check]

\* C20: the two lists hold, in order, the candidates diagnose() has put in
\* them, whatever reportManualFixes and runAutoFixes have done since; no
\* candidate of toFixOptionals is ever fixed or handed to runAutoFix, and
\* fixed is set on automatic candidates of toFix only.
OptionalNeverAutoFixed ==
  /\ CheckSeq(toFix) = Classified("required")
  /\ pc # "required" => CheckSeq(toFixOptionals) = Classified("optional")
  /\ \A k \in DOMAIN toFixOptionals : ~toFixOptionals[k].fixed
  /\ \A k \in DOMAIN toFix : toFix[k].fixed => IsAuto(toFix[k])
  /\ \A j \in DOMAIN calls :
       calls[j].kind = "fix" =>
         IF calls[j].phase = "auto"
         THEN /\ calls[j].idx \in DOMAIN toFix
              /\ calls[j].check = toFix[calls[j].idx].check
         ELSE ~autofix[calls[j].check]

\* C20 witness: run() has fixed the automatic candidate of toFix and has
\* left the automatic candidate of another check in toFixOptionals alone.
OptionalAutoCandidateLeftAlone ==
  /\ RunReturned /\ Last.outcome = "auto-fixes-attempted"
  /\ Len(toFix) = 1 /\ toFix[1].fixed
  /\ Len(toFixOptionals) = 1 /\ IsAuto(toFixOptionals[1])
  /\ toFixOptionals[1].check # toFix[1].check
  /\ Len(AutoFixCalls) = 1
====
